---------------------------- MODULE Spec2Model ----------------------------
(***************************************************************************)
(* A model of main.py: the streak calculator (calculate_streaks), the      *)
(* commit classifier (get_commit_complexity) and the aggregation and       *)
(* derived-metrics passes of analyze_repo.                                 *)
(*                                                                         *)
(* Representation.                                                         *)
(*  - A datetime is a record [day, hour]: day is the calendar date as a    *)
(*    day number, hour the hour of that day.  d.date() is d.day, and       *)
(*    datetimes compare lexicographically, as Python's do.                 *)
(*  - A str is a sequence of one-character strings, so that lower(),       *)
(*    `in` and split('.') are computed and not assumed.                    *)
(*  - commit.stats.files, a dict, is the sequence of its items in          *)
(*    iteration order: records [path, insertions, deletions].              *)
(*  - A quotient a / b is the record [num |-> a, den |-> b]; a division    *)
(*    by zero is a quotient whose den is 0.                                *)
(*  - commit.raises names the evaluation of commit.stats inside the try    *)
(*    block of analyze_repo that raises (commit.stats is evaluated anew at *)
(*    each use); 0 when none does.                                         *)
(***************************************************************************)
EXTENDS Integers, Sequences, FiniteSets

VARIABLES
    \* calculate_streaks
    commit_dates,    \* the argument: a list of datetimes
    today,           \* datetime.now().date()
    streaks,         \* the returned (longest_streak, current_streak), or None
    \* get_commit_complexity
    commit,          \* the argument
    complexity,      \* the returned metrics, or None
    \* analyze_repo
    start,           \* None or the datetime parsed from start_date
    end,             \* None or the datetime parsed from end_date
    seen,            \* the commits repo.iter_commits() has yielded so far
    total_commits,
    stats,           \* author |-> accumulator, for the authors that have one
    order,           \* the keys of stats in insertion order
    derived,         \* author |-> the metrics lines 213-273 add to its entry
    pc               \* "iter": in the loop of line 157; "done": returned;
                     \* "raised": ZeroDivisionError left analyze_repo

vars == <<commit_dates, today, streaks, commit, complexity,
          start, end, seen, total_commits, stats, order, derived, pc>>

streakVars == <<commit_dates, today, streaks>>
complexityVars == <<commit, complexity>>
analyzeVars == <<start, end, seen, total_commits, stats, order, derived, pc>>

None == [none |-> TRUE]

(***************************************************************************)
(* Bounds of the model.                                                    *)
(***************************************************************************)
MaxDates == 3        \* length of the list given to calculate_streaks
MaxStreakDay == 4    \* calendar dates 0..MaxStreakDay in that list
MaxFiles == 2        \* files of the commit given to get_commit_complexity
MaxCommits == 2      \* commits yielded by repo.iter_commits()
MaxDay == 2          \* calendar dates 0..MaxDay of the commits of analyze_repo

(***************************************************************************)
(* Strings.                                                                *)
(***************************************************************************)
UpperAlphabet ==
    <<"A", "B", "C", "D", "E", "F", "G", "H", "I", "J", "K", "L", "M",
      "N", "O", "P", "Q", "R", "S", "T", "U", "V", "W", "X", "Y", "Z">>
LowerAlphabet ==
    <<"a", "b", "c", "d", "e", "f", "g", "h", "i", "j", "k", "l", "m",
      "n", "o", "p", "q", "r", "s", "t", "u", "v", "w", "x", "y", "z">>

LowerChar(c) ==
    IF \E i \in DOMAIN UpperAlphabet : UpperAlphabet[i] = c
    THEN LowerAlphabet[CHOOSE i \in DOMAIN UpperAlphabet : UpperAlphabet[i] = c]
    ELSE c

\* str.lower()
Lower(s) == [i \in DOMAIN s |-> LowerChar(s[i])]

\* sub in s
Contains(s, sub) ==
    \E i \in 1..(Len(s) - Len(sub) + 1) : SubSeq(s, i, i + Len(sub) - 1) = sub

\* re.search(r'k1|k2|...', s) is not None, for literal alternatives
SearchAny(keywords, s) == \E k \in keywords : Contains(s, k)

\* s.split('.')[-1]: what follows the last '.', the whole of s when it has none
AfterLastDot(s) ==
    LET dots == {i \in DOMAIN s : s[i] = "."}
    IN IF dots = {} THEN s
       ELSE LET last == CHOOSE i \in dots : \A j \in dots : j <= i
            IN SubSeq(s, last + 1, Len(s))

(***************************************************************************)
(* calculate_streaks (lines 18-64).                                        *)
(***************************************************************************)
RECURSIVE SortedSeq(_)
\* sorted(S)
SortedSeq(S) ==
    IF S = {} THEN <<>>
    ELSE LET m == CHOOSE x \in S : \A y \in S : x <= y
         IN <<m>> \o SortedSeq(S \ {m})

\* sorted(set(d.date() for d in commit_dates))
SortedDates(cd) == SortedSeq({cd[i].day : i \in DOMAIN cd})

Max(a, b) == IF a >= b THEN a ELSE b

RECURSIVE LongestLoop(_, _, _, _)
\* the loop of lines 41-46, from index i, 1-based here
LongestLoop(dates, i, longest_streak, current_count) ==
    IF i > Len(dates)
    THEN [longest_streak |-> longest_streak, current_count |-> current_count]
    ELSE IF dates[i] - dates[i - 1] = 1
         THEN LongestLoop(dates, i + 1, longest_streak, current_count + 1)
         ELSE LongestLoop(dates, i + 1, Max(longest_streak, current_count), 1)

\* A slip the final update of line 49 guards against: the last run is dropped.
LongestStreakNoFinalUpdate(dates) ==
    LongestLoop(dates, 2, 1, 1).longest_streak

\* lines 36-49
LongestStreak(dates) ==
    LET r == LongestLoop(dates, 2, 1, 1)
    IN Max(r.longest_streak, r.current_count)

RECURSIVE BackwardLoop(_, _, _, _)
\* the loop of lines 57-60
BackwardLoop(dates, idx, current_date, current_streak) ==
    IF idx >= 1 /\ current_date - dates[idx] = 1
    THEN BackwardLoop(dates, idx - 1, dates[idx], current_streak + 1)
    ELSE current_streak

\* A slip: the recency test of line 52 accepts only today.
CurrentStreakTodayOnly(dates, now) ==
    IF dates[Len(dates)] = now
    THEN BackwardLoop(dates, Len(dates) - 1, dates[Len(dates)], 1)
    ELSE 0

\* lines 51-62
CurrentStreak(dates, now) ==
    IF dates[Len(dates)] = now \/ dates[Len(dates)] = now - 1
    THEN BackwardLoop(dates, Len(dates) - 1, dates[Len(dates)], 1)
    ELSE 0

\* A slip: the initial values of lines 36-37 are returned for every input.
calculate_streaks_no_loop(cd, now) ==
    IF cd = <<>> THEN [longest_streak |-> 0, current_streak |-> 0]
    ELSE [longest_streak |-> 1, current_streak |-> CurrentStreak(SortedDates(cd), now)]

calculate_streaks(cd, now) ==
    IF cd = <<>> THEN [longest_streak |-> 0, current_streak |-> 0]
    ELSE LET dates == SortedDates(cd)
         IN IF dates = <<>> THEN [longest_streak |-> 0, current_streak |-> 0]
            ELSE [longest_streak |-> LongestStreak(dates),
                  current_streak |-> CurrentStreak(dates, now)]

(***************************************************************************)
(* get_commit_complexity (lines 66-114).                                   *)
(***************************************************************************)
FixWords ==
    { <<"f", "i", "x">>, <<"b", "u", "g">>, <<"i", "s", "s", "u", "e">>,
      <<"e", "r", "r", "o", "r">>, <<"c", "r", "a", "s", "h">>,
      <<"p", "r", "o", "b", "l", "e", "m">>, <<"f", "a", "i", "l">> }
RefactorWords ==
    { <<"r", "e", "f", "a", "c", "t", "o", "r">>, <<"c", "l", "e", "a", "n">>,
      <<"i", "m", "p", "r", "o", "v", "e">>,
      <<"o", "p", "t", "i", "m", "i", "z", "e">>,
      <<"s", "i", "m", "p", "l", "i", "f", "y">> }
FeatureWords ==
    { <<"f", "e", "a", "t", "u", "r", "e">>, <<"a", "d", "d">>,
      <<"n", "e", "w">>, <<"i", "m", "p", "l", "e", "m", "e", "n", "t">>,
      <<"s", "u", "p", "p", "o", "r", "t">> }

\* The bucket of a file, with the two tests of lines 102 and 104 exchanged.
BucketDocFirst(file) ==
    LET f == Lower(file)
    IN IF Contains(f, <<"d", "o", "c">>)
          \/ Contains(f, <<"r", "e", "a", "d", "m", "e">>)
          \/ Contains(f, <<".", "m", "d">>)
       THEN "doc_changes"
       ELSE IF Contains(f, <<"t", "e", "s", "t">>)
               \/ Contains(f, <<"/", "t", "e", "s", "t", "s", "/">>)
            THEN "test_changes"
            ELSE "code_changes"

\* lines 102-107: the counter a file's changes are added to
Bucket(file) ==
    LET f == Lower(file)
    IN IF Contains(f, <<"t", "e", "s", "t">>)
          \/ Contains(f, <<"/", "t", "e", "s", "t", "s", "/">>)
       THEN "test_changes"
       ELSE IF Contains(f, <<"d", "o", "c">>)
               \/ Contains(f, <<"r", "e", "a", "d", "m", "e">>)
               \/ Contains(f, <<".", "m", "d">>)
            THEN "doc_changes"
            ELSE "code_changes"

\* lines 110-112 and 181-183: the file type a path adds to a set of them
WithFileType(file_types, file) ==
    IF Contains(file, <<".">>)
    THEN file_types \cup {Lower(AfterLastDot(file))}
    ELSE file_types

\* lines 77-95: the metrics before the loop over the files
InitialMetrics(message) ==
    [test_changes |-> 0, doc_changes |-> 0, code_changes |-> 0,
     is_fix |-> SearchAny(FixWords, Lower(message)),
     is_refactor |-> SearchAny(RefactorWords, Lower(message)),
     is_feature |-> SearchAny(FeatureWords, Lower(message)),
     file_types |-> {},
     commit_size |-> 0]

\* lines 99-112: one iteration of the loop over the files
ComplexityStep(metrics, f) ==
    LET changes == f.insertions + f.deletions
        bucket == Bucket(f.path)
    IN [metrics EXCEPT
          !.commit_size = @ + changes,
          !.test_changes = IF bucket = "test_changes" THEN @ + changes ELSE @,
          !.doc_changes = IF bucket = "doc_changes" THEN @ + changes ELSE @,
          !.code_changes = IF bucket = "code_changes" THEN @ + changes ELSE @,
          !.file_types = WithFileType(@, f.path)]

RECURSIVE ComplexityLoop(_, _, _)
\* lines 98-112, from the i-th file
ComplexityLoop(metrics, files, i) ==
    IF i > Len(files) THEN metrics
    ELSE ComplexityLoop(ComplexityStep(metrics, files[i]), files, i + 1)

get_commit_complexity(c) ==
    ComplexityLoop(InitialMetrics(c.message), c.files, 1)

(***************************************************************************)
(* The inputs the model draws from.                                        *)
(***************************************************************************)
HourPool == {0, 12}

\* the sequences over S of length at most n
SeqsUpTo(S, n) == UNION {[1..k -> S] : k \in 0..n}

StreakTimes == [day : 0..MaxStreakDay, hour : HourPool]
StreakToday == 0..(MaxStreakDay + 2)

PathPool ==
    { <<"t", "e", "s", "t", "s", "/", "f", "o", "o", "_", "t", "e", "s", "t", ".", "e", "x", "t">>,
      <<"d", "o", "c", "s", "/", "T", "e", "s", "t", "i", "n", "g", ".", "M", "D">>,
      <<"R", "E", "A", "D", "M", "E", ".", "m", "d">>,
      <<"s", "r", "c", "/", "m", "a", "i", "n", ".", "p", "y">>,
      <<"M", "a", "k", "e", "f", "i", "l", "e">> }
InsertionPool == {0, 10}
DeletionPool == {0, 2}

MsgFix ==
    <<"F", "i", "x", " ", "c", "r", "a", "s", "h", " ", "o", "n", " ",
      "s", "t", "a", "r", "t", "u", "p">>
MsgMerge ==
    <<"M", "e", "r", "g", "e", " ", "p", "u", "l", "l", " ", "r", "e", "q", "u", "e", "s", "t",
      " ", "#", "3", ":", " ", "a", "d", "d", " ", "n", "e", "w", " ",
      "f", "e", "a", "t", "u", "r", "e">>
MsgClean ==
    <<"C", "l", "e", "a", "n", " ", "u", "p", " ",
      "w", "h", "i", "t", "e", "s", "p", "a", "c", "e">>
MsgWip == <<"w", "i", "p">>
MessagePool == {MsgFix, MsgMerge, MsgClean, MsgWip}

FileStat == [path : PathPool, insertions : InsertionPool, deletions : DeletionPool]

\* the items of a dict: no key twice
FileDicts(n) ==
    {fs \in SeqsUpTo(FileStat, n) :
        \A i, j \in DOMAIN fs : i # j => fs[i].path # fs[j].path}

Commit(author, committed_date, files, message, raises) ==
    [author |-> author, committed_date |-> committed_date, files |-> files,
     message |-> message, raises |-> raises]

(***************************************************************************)
(* The states the three specifications start from.  Each leaves the        *)
(* variables of the other two functions idle.                              *)
(***************************************************************************)
EmptyDict == <<>>

StreaksIdle == commit_dates = <<>> /\ streaks = None
ComplexityIdle == commit = None /\ complexity = None
AnalyzeIdle ==
    /\ start = None /\ end = None /\ seen = <<>> /\ total_commits = 0
    /\ stats = EmptyDict /\ order = <<>> /\ derived = EmptyDict /\ pc = "idle"

(***************************************************************************)
(* SpecStreaks: calculate_streaks on every list of at most MaxDates        *)
(* datetimes, at every value of the clock.                                 *)
(***************************************************************************)
InitStreaks ==
    /\ commit_dates \in SeqsUpTo(StreakTimes, MaxDates)
    /\ today \in StreakToday
    /\ streaks = None
    /\ ComplexityIdle
    /\ AnalyzeIdle

CallCalculateStreaks ==
    /\ streaks = None
    /\ streaks' = calculate_streaks(commit_dates, today)
    /\ UNCHANGED <<commit_dates, today, complexityVars, analyzeVars>>

NextStreaks == CallCalculateStreaks

SpecStreaks == InitStreaks /\ [][NextStreaks]_vars

(***************************************************************************)
(* SpecComplexity: get_commit_complexity on every commit of at most        *)
(* MaxFiles files.                                                         *)
(***************************************************************************)
InitComplexity ==
    /\ commit \in {Commit("octocat", [day |-> 0, hour |-> 0], fs, m, 0) :
                     fs \in FileDicts(MaxFiles), m \in MessagePool}
    /\ complexity = None
    /\ today = 0
    /\ StreaksIdle
    /\ AnalyzeIdle

CallGetCommitComplexity ==
    /\ complexity = None
    /\ complexity' = get_commit_complexity(commit)
    /\ UNCHANGED <<commit, streakVars, analyzeVars>>

NextComplexity == CallGetCommitComplexity

SpecComplexity == InitComplexity /\ [][NextComplexity]_vars

(***************************************************************************)
(* analyze_repo (lines 116-275): the aggregation pass.                     *)
(***************************************************************************)
AUTHOR_MAPPINGS ==
    [name \in {"ntunjic", "Niko", "Waluigi-dev", "if21b503"} |->
        IF name \in {"ntunjic", "Niko"} THEN "Niko" ELSE "Waluigi-dev"]

\* line 159: AUTHOR_MAPPINGS.get(author_name, author_name)
NormalizeAuthor(name) ==
    IF name \in DOMAIN AUTHOR_MAPPINGS THEN AUTHOR_MAPPINGS[name] ELSE name

\* lines 131-132: datetime.strptime(date, '%Y-%m-%d'), midnight of that date
strptime(date) == [day |-> date, hour |-> 0]

\* line 160: datetime.fromtimestamp(t), t counted in hours
fromtimestamp(t) == [day |-> t \div 24, hour |-> t % 24]

\* a < b on datetimes
Before(a, b) == a.day < b.day \/ (a.day = b.day /\ a.hour < b.hour)

\* lines 163-166: the commit is skipped
Excluded(commit_date, s, e) ==
    \/ s # None /\ Before(commit_date, s)
    \/ e # None /\ Before(e, commit_date)

WeekdayNames ==
    <<"Monday", "Tuesday", "Wednesday", "Thursday", "Friday", "Saturday", "Sunday">>

\* commit_date.strftime('%A'), day 0 taken to be a Monday
Weekday(d) == WeekdayNames[(d.day % 7) + 1]

\* counts[key] += 1 on a defaultdict(int) or Counter kept as its items in
\* insertion order
Bump(counts, key) ==
    IF \E i \in DOMAIN counts : counts[i].key = key
    THEN [i \in DOMAIN counts |->
            IF counts[i].key = key
            THEN [key |-> key, n |-> counts[i].n + 1] ELSE counts[i]]
    ELSE Append(counts, [key |-> key, n |-> 1])

\* lines 135-152: the accumulator the defaultdict makes for a new author
NewAccumulator ==
    [commits |-> 0, files_changed |-> 0, additions |-> 0, deletions |-> 0,
     active_days |-> {}, commit_dates |-> <<>>, weekday_commits |-> <<>>,
     tests_added |-> 0, docs_added |-> 0, fix_commits |-> 0,
     refactor_commits |-> 0, feature_commits |-> 0, file_types |-> {},
     commit_sizes |-> <<>>, pr_related_commits |-> 0, commit_messages |-> <<>>]

\* stats[author_name], which the defaultdict creates when it is missing
Lookup(st, author_name) ==
    IF author_name \in DOMAIN st THEN st[author_name] ELSE NewAccumulator

Put(st, author_name, acc) ==
    [a \in DOMAIN st \cup {author_name} |-> IF a = author_name THEN acc ELSE st[a]]

KeysWith(ord, st, author_name) ==
    IF author_name \in DOMAIN st THEN ord ELSE Append(ord, author_name)

\* lines 169-172
CountCommit(acc, commit_date) ==
    [acc EXCEPT !.commits = @ + 1,
                !.active_days = @ \cup {commit_date.day},
                !.commit_dates = Append(@, commit_date),
                !.weekday_commits = Bump(@, Weekday(commit_date))]

RECURSIVE FileLoop(_, _, _, _)
\* lines 175-183 from the k-th file.  The evaluation of commit.stats at
\* line 177 is the (2k)-th of the try block and that at line 178 the
\* (2k+1)-th; the one that raises leaves the loop with what was added so far.
FileLoop(acc, files, k, raises) ==
    IF k > Len(files) THEN [acc |-> acc, raised |-> FALSE]
    ELSE LET a176 == [acc EXCEPT !.files_changed = @ + 1]
             a177 == [a176 EXCEPT !.additions = @ + files[k].insertions]
             a183 == [a177 EXCEPT !.deletions = @ + files[k].deletions,
                                  !.file_types = WithFileType(@, files[k].path)]
         IN IF raises = 2 * k THEN [acc |-> a176, raised |-> TRUE]
            ELSE IF raises = 2 * k + 1 THEN [acc |-> a177, raised |-> TRUE]
            ELSE FileLoop(a183, files, k + 1, raises)

\* line 204
IsPrRelated(message) ==
    \/ Contains(Lower(message), <<"p", "u", "l", "l", " ", "r", "e", "q", "u", "e", "s", "t">>)
    \/ Contains(Lower(message), <<"p", "r", " ", "#">>)
    \/ Contains(Lower(message), <<"m", "e", "r", "g", "e">>)

\* lines 186-205: what follows the loop over the files when nothing raises
QualityUpdate(acc, c) ==
    LET cx == get_commit_complexity(c)
    IN [acc EXCEPT
          !.commit_messages = Append(@, c.message),
          !.tests_added = @ + cx.test_changes,
          !.docs_added = @ + cx.doc_changes,
          !.commit_sizes = Append(@, cx.commit_size),
          !.fix_commits = IF cx.is_fix THEN @ + 1 ELSE @,
          !.refactor_commits = IF cx.is_refactor THEN @ + 1 ELSE @,
          !.feature_commits = IF cx.is_feature THEN @ + 1 ELSE @,
          !.pr_related_commits = IF IsPrRelated(c.message) THEN @ + 1 ELSE @]

\* the evaluations of commit.stats in the try block before line 189: one at
\* line 175, two for each file, and those of get_commit_complexity, which
\* change nothing of stats and count as one
LastAccess(c) == 2 * Len(c.files) + 2

\* lines 174-210: the try block and its handler, which prints and continues
TryBlock(acc, c) ==
    IF c.raises = 1 THEN acc
    ELSE LET r == FileLoop(acc, c.files, 1, c.raises)
         IN IF r.raised \/ c.raises = LastAccess(c) THEN r.acc
            ELSE QualityUpdate(r.acc, c)

\* A slip: total_commits is counted before the date filter.
FoldCommitCountsFirst(st, ord, total, c, s, e) ==
    LET author_name == NormalizeAuthor(c.author)
        commit_date == fromtimestamp(c.committed_date)
    IN IF Excluded(commit_date, s, e)
       THEN [stats |-> st, order |-> ord, total_commits |-> total + 1]
       ELSE [stats |-> Put(st, author_name,
                           TryBlock(CountCommit(Lookup(st, author_name), commit_date), c)),
             order |-> KeysWith(ord, st, author_name),
             total_commits |-> total + 1]

\* A slip: stats[author_name] is read, and so created, before the date filter.
FoldCommitTouchesFirst(st, ord, total, c, s, e) ==
    LET author_name == NormalizeAuthor(c.author)
        commit_date == fromtimestamp(c.committed_date)
    IN IF Excluded(commit_date, s, e)
       THEN [stats |-> Put(st, author_name, Lookup(st, author_name)),
             order |-> KeysWith(ord, st, author_name),
             total_commits |-> total]
       ELSE [stats |-> Put(st, author_name,
                           TryBlock(CountCommit(Lookup(st, author_name), commit_date), c)),
             order |-> KeysWith(ord, st, author_name),
             total_commits |-> total + 1]

\* lines 158-210: one iteration of the loop over the commits
FoldCommit(st, ord, total, c, s, e) ==
    LET author_name == NormalizeAuthor(c.author)
        commit_date == fromtimestamp(c.committed_date)
    IN IF Excluded(commit_date, s, e)
       THEN [stats |-> st, order |-> ord, total_commits |-> total]
       ELSE [stats |-> Put(st, author_name,
                           TryBlock(CountCommit(Lookup(st, author_name), commit_date), c)),
             order |-> KeysWith(ord, st, author_name),
             total_commits |-> total + 1]

(***************************************************************************)
(* analyze_repo: the derived metrics (lines 213-273).  The median, the     *)
(* standard deviation and the ISO week numbers are left out: they are      *)
(* library calls behind the same guards as the mean.                       *)
(***************************************************************************)
AtomicThreshold == 50

Zero == [num |-> 0, den |-> 1]

\* a / b
Div(a, b) == [num |-> a, den |-> b]

\* A slip: the guard of a ratio is forgotten.
GuardedDivNoGuard(a, b) == Div(a, b)

\* a / b if b > 0 else 0
GuardedDiv(a, b) == IF b > 0 THEN Div(a, b) ELSE Zero

RECURSIVE SumSeq(_)
SumSeq(q) == IF q = <<>> THEN 0 ELSE Head(q) + SumSeq(Tail(q))

RECURSIVE CountAll(_, _)
\* Counter(keys), from the counts so far
CountAll(counts, keys) ==
    IF keys = <<>> THEN counts
    ELSE CountAll(Bump(counts, Head(keys)), Tail(keys))

\* max(counts.items(), key=lambda x: x[1])[0]: the first of the largest
FirstMax(counts) ==
    counts[CHOOSE i \in DOMAIN counts :
             /\ \A j \in DOMAIN counts : counts[j].n <= counts[i].n
             /\ \A j \in 1..(i - 1) : counts[j].n < counts[i].n].key

\* lines 252-253, with the ratio taken over the recorded sizes
AtomicCommits(commit_sizes) ==
    Cardinality({i \in DOMAIN commit_sizes : commit_sizes[i] <= AtomicThreshold})

\* lines 214-273 for one author
DerivedMetrics(data, total, now) ==
    LET s == calculate_streaks(data.commit_dates, now)
        code_churn == data.additions + data.deletions
        hour_distribution ==
            CountAll(<<>>, [i \in DOMAIN data.commit_dates |-> data.commit_dates[i].hour])
        active_days == Cardinality(data.active_days)
    IN [longest_streak |-> s.longest_streak,
        current_streak |-> s.current_streak,
        most_active_day |->
            IF data.weekday_commits # <<>>
            THEN [value |-> FirstMax(data.weekday_commits)] ELSE None,
        commit_percentage |-> Div(data.commits * 100, total),
        avg_files_per_commit |-> GuardedDiv(data.files_changed, data.commits),
        avg_lines_per_commit |-> GuardedDiv(code_churn, data.commits),
        code_churn |-> code_churn,
        impact_ratio |-> GuardedDiv(data.additions - data.deletions, code_churn),
        test_ratio |-> GuardedDiv(data.tests_added, data.additions),
        doc_ratio |-> GuardedDiv(data.docs_added, data.additions),
        fix_ratio |-> GuardedDiv(data.fix_commits, data.commits),
        refactor_ratio |-> GuardedDiv(data.refactor_commits, data.commits),
        feature_ratio |-> GuardedDiv(data.feature_commits, data.commits),
        pr_ratio |-> GuardedDiv(data.pr_related_commits, data.commits),
        mean_commit_size |->
            IF data.commit_sizes # <<>>
            THEN Div(SumSeq(data.commit_sizes), Len(data.commit_sizes)) ELSE Zero,
        atomic_commits |->
            IF data.commit_sizes # <<>> THEN AtomicCommits(data.commit_sizes) ELSE 0,
        atomic_commit_ratio |->
            IF data.commit_sizes # <<>>
            THEN GuardedDiv(AtomicCommits(data.commit_sizes), data.commits) ELSE Zero,
        active_days_count |-> active_days,
        commits_per_active_day |->
            IF active_days > 0 THEN Div(data.commits, active_days) ELSE None,
        peak_hour |->
            IF hour_distribution # <<>>
            THEN [value |-> FirstMax(hour_distribution)] ELSE None]

\* the quotients evaluated for one author
Quotients(m) ==
    {m.commit_percentage, m.avg_files_per_commit, m.avg_lines_per_commit,
     m.impact_ratio, m.test_ratio, m.doc_ratio, m.fix_ratio, m.refactor_ratio,
     m.feature_ratio, m.pr_ratio, m.mean_commit_size, m.atomic_commit_ratio}
    \cup (IF m.commits_per_active_day = None THEN {} ELSE {m.commits_per_active_day})

(***************************************************************************)
(* Spec: analyze_repo on every history of at most MaxCommits commits drawn *)
(* from CommitPool, under every date window of WindowDates.                *)
(***************************************************************************)
WindowDates == {1}
AnalyzeToday == {1, 9}
\* midnight of a window date: inside every window
BaseTimes == {d * 24 : d \in WindowDates}

FilesNone == <<>>
FilesTest ==
    << [path |-> <<"t", "e", "s", "t", "s", "/", "f", "o", "o", "_", "t", "e", "s", "t", ".", "e", "x", "t">>,
        insertions |-> 10, deletions |-> 2] >>
FilesLarge ==
    << [path |-> <<"R", "E", "A", "D", "M", "E", ".", "m", "d">>,
        insertions |-> 1, deletions |-> 0],
       [path |-> <<"s", "r", "c", "/", "m", "a", "i", "n", ".", "p", "y">>,
        insertions |-> 40, deletions |-> 20] >>
FilesDeleted ==
    << [path |-> <<"M", "a", "k", "e", "f", "i", "l", "e">>,
        insertions |-> 0, deletions |-> 2] >>

\* commits that differ in their date only
TimeVariants ==
    {Commit("ntunjic", d * 24 + h, FilesTest, MsgFix, 0) :
        d \in 0..MaxDay, h \in HourPool}

\* commits inside every window that differ in author and content
ContentVariants ==
    {Commit(a, t, fm[1], fm[2], 0) :
        a \in {"ntunjic", "octocat"}, t \in BaseTimes,
        fm \in {<<FilesNone, MsgMerge>>, <<FilesTest, MsgFix>>,
                <<FilesLarge, MsgClean>>, <<FilesDeleted, MsgWip>>}}

\* commits inside every window for which an evaluation of commit.stats raises
FailVariants ==
    {Commit("octocat", t, FilesLarge, MsgFix, r) :
        t \in BaseTimes, r \in 1..(2 * Len(FilesLarge) + 2)}

CommitPool == TimeVariants \cup ContentVariants \cup FailVariants

Init ==
    /\ start \in {None} \cup {strptime(d) : d \in WindowDates}
    /\ end \in {None} \cup {strptime(d) : d \in WindowDates}
    /\ seen = <<>>
    /\ total_commits = 0
    /\ stats = EmptyDict
    /\ order = <<>>
    /\ derived = EmptyDict
    /\ pc = "iter"
    /\ today = 0
    /\ StreaksIdle
    /\ ComplexityIdle

\* lines 157-210: repo.iter_commits() yields one more commit
ProcessCommit ==
    /\ pc = "iter"
    /\ Len(seen) < MaxCommits
    /\ \E c \in CommitPool :
         LET r == FoldCommit(stats, order, total_commits, c, start, end)
         IN /\ seen' = Append(seen, c)
            /\ stats' = r.stats
            /\ order' = r.order
            /\ total_commits' = r.total_commits
    /\ UNCHANGED <<start, end, derived, pc, today, streakVars, complexityVars>>

\* lines 213-275: the history is exhausted; the metrics of every author are
\* derived and stats is returned, unless a division raises
Derive ==
    /\ pc = "iter"
    /\ \E now \in AnalyzeToday :
         LET m == [a \in DOMAIN stats |-> DerivedMetrics(stats[a], total_commits, now)]
         IN /\ today' = now
            /\ IF \E a \in DOMAIN m : \E q \in Quotients(m[a]) : q.den = 0
               THEN pc' = "raised" /\ derived' = derived
               ELSE pc' = "done" /\ derived' = m
    /\ UNCHANGED <<start, end, seen, total_commits, stats, order,
                   commit_dates, streaks, complexityVars>>

Next == ProcessCommit \/ Derive

Spec == Init /\ [][Next]_vars

(***************************************************************************)
(* Properties of calculate_streaks, under SpecStreaks.                     *)
(***************************************************************************)
\* the distinct calendar dates of a list of datetimes
DateSet(cd) == {cd[i].day : i \in DOMAIN cd}

\* the length of the longest run of consecutive dates of S that ends at d
RunEndingAt(S, d) ==
    CHOOSE k \in 1..Cardinality(S) :
        /\ \A j \in 0..(k - 1) : d - j \in S
        /\ d - k \notin S

\* the length of the longest run of consecutive dates of S
MaxRun(S) ==
    CHOOSE k \in {RunEndingAt(S, d) : d \in S} :
        \A d \in S : RunEndingAt(S, d) <= k

Latest(S) == CHOOSE d \in S : \A x \in S : x <= d

\* C4: longest_streak is the length of the longest run of consecutive
\* calendar dates among the distinct dates of the list, whatever its order
\* and duplicates; the empty list gives (0, 0) and a single date gives 1.
C4_LongestStreak ==
    streaks # None =>
        /\ commit_dates = <<>> =>
              streaks = [longest_streak |-> 0, current_streak |-> 0]
        /\ commit_dates # <<>> =>
              streaks.longest_streak = MaxRun(DateSet(commit_dates))
        /\ Cardinality(DateSet(commit_dates)) = 1 => streaks.longest_streak = 1

\* an unsorted list with a repeated day whose longest run is its last
C4_Witness ==
    /\ streaks # None
    /\ Len(commit_dates) = 3
    /\ commit_dates[1].day > commit_dates[2].day
    /\ commit_dates[3].day = commit_dates[2].day
    /\ streaks.longest_streak = 2

\* C5: current_streak is 0 when the latest date is neither today nor
\* yesterday, and otherwise the length of the run of consecutive dates that
\* ends at the latest date.
C5_CurrentStreak ==
    (streaks # None /\ commit_dates # <<>>) =>
        LET S == DateSet(commit_dates)
            last == Latest(S)
        IN streaks.current_streak =
              IF last = today \/ last = today - 1
              THEN RunEndingAt(S, last) ELSE 0

\* the latest date is yesterday and ends a run of two
C5_Witness ==
    /\ streaks # None
    /\ commit_dates # <<>>
    /\ Latest(DateSet(commit_dates)) = today - 1
    /\ streaks.current_streak = 2

\* C6: for a non-empty list longest_streak >= current_streak and
\* longest_streak >= 1.
C6_LongestBoundsCurrent ==
    (streaks # None /\ commit_dates # <<>>) =>
        /\ streaks.longest_streak >= streaks.current_streak
        /\ streaks.longest_streak >= 1

\* a current streak of one after a gap, the longest streak being older
C6_Witness ==
    /\ streaks # None
    /\ commit_dates # <<>>
    /\ streaks.current_streak = 1
    /\ streaks.longest_streak = 2

(***************************************************************************)
(* Properties of get_commit_complexity, under SpecComplexity.              *)
(***************************************************************************)
IsTestPath(path) == Contains(Lower(path), <<"t", "e", "s", "t">>)
IsDocPath(path) ==
    \/ Contains(Lower(path), <<"d", "o", "c">>)
    \/ Contains(Lower(path), <<"r", "e", "a", "d", "m", "e">>)
    \/ Contains(Lower(path), <<".", "m", "d">>)

RECURSIVE ChangesOf(_, _)
\* insertions + deletions summed over the files with an index in I
ChangesOf(files, I) ==
    IF I = {} THEN 0
    ELSE LET i == CHOOSE x \in I : TRUE
         IN files[i].insertions + files[i].deletions + ChangesOf(files, I \ {i})

\* C8: each file's insertions + deletions go to exactly one counter: to
\* test_changes when the lower-cased path contains "test", else to
\* doc_changes when it contains "doc", "readme" or ".md", else to
\* code_changes; the three add up to commit_size, the changes of all files;
\* a commit of test files only adds nothing to code_changes and doc_changes.
C8_Classification ==
    complexity # None =>
        LET files == commit.files
            tests == {i \in DOMAIN files : IsTestPath(files[i].path)}
            docs == {i \in DOMAIN files : IsDocPath(files[i].path)} \ tests
            code == DOMAIN files \ (tests \cup docs)
        IN /\ complexity.test_changes = ChangesOf(files, tests)
           /\ complexity.doc_changes = ChangesOf(files, docs)
           /\ complexity.code_changes = ChangesOf(files, code)
           /\ complexity.commit_size = ChangesOf(files, DOMAIN files)
           /\ complexity.test_changes + complexity.doc_changes
                 + complexity.code_changes = complexity.commit_size
           /\ tests = DOMAIN files =>
                 complexity.code_changes = 0 /\ complexity.doc_changes = 0

\* a file whose path has both "test" and "doc", beside a code file
C8_Witness ==
    /\ complexity # None
    /\ \E i, j \in DOMAIN commit.files :
          /\ IsTestPath(commit.files[i].path) /\ IsDocPath(commit.files[i].path)
          /\ commit.files[i].insertions + commit.files[i].deletions = 12
          /\ ~IsTestPath(commit.files[j].path) /\ ~IsDocPath(commit.files[j].path)
          /\ commit.files[j].insertions + commit.files[j].deletions = 2
    /\ complexity.test_changes = 12
    /\ complexity.code_changes = 2

(***************************************************************************)
(* Properties of analyze_repo, under Spec.                                 *)
(***************************************************************************)
RECURSIVE SumCommits(_, _)
\* the sum of st[a].commits over the authors a of A
SumCommits(st, A) ==
    IF A = {} THEN 0
    ELSE LET a == CHOOSE x \in A : TRUE
         IN st[a].commits + SumCommits(st, A \ {a})

\* the commit passed the tests of lines 163-166
Passed(c) == ~Excluded(fromtimestamp(c.committed_date), start, end)

\* the calendar date of the commit is before start_date or after end_date
DatedOutside(c) ==
    \/ start # None /\ fromtimestamp(c.committed_date).day < start.day
    \/ end # None /\ fromtimestamp(c.committed_date).day > end.day

LastSeen == seen'[Len(seen')]
Yields == pc = "iter" /\ Len(seen') = Len(seen) + 1

\* C1: after any prefix of the commits, the per-author commit counts add up
\* to total_commits, which is the number of commits seen so far that passed
\* the date filter.
C1_CommitCount ==
    /\ SumCommits(stats, DOMAIN stats) = total_commits
    /\ total_commits = Cardinality({i \in DOMAIN seen : Passed(seen[i])})

\* two authors, one of them with a commit whose file statistics raised
C1_Witness ==
    /\ Cardinality(DOMAIN stats) = 2
    /\ total_commits = 2
    /\ \E i \in DOMAIN seen : seen[i].raises # 0

\* C2: a commit dated before start_date or after end_date changes nothing:
\* not total_commits, not an accumulator, not the set of authors that have
\* one.
C2_ExcludedFrame ==
    [][(Yields /\ DatedOutside(LastSeen)) =>
          /\ total_commits' = total_commits
          /\ stats' = stats
          /\ order' = order]_vars

\* a counted commit, then one dated outside the window by another author
C2_Witness ==
    /\ Len(seen) = 2
    /\ Passed(seen[1])
    /\ DatedOutside(seen[2])
    /\ DOMAIN stats = {NormalizeAuthor(seen[1].author)}
    /\ NormalizeAuthor(seen[2].author) \notin DOMAIN stats

\* C3: the window is inclusive at both ends: the commits counted, in
\* total_commits and for each author, are exactly those whose calendar date
\* is neither before start_date nor after end_date.
C3_InclusiveWindow ==
    LET inside == {i \in DOMAIN seen : ~DatedOutside(seen[i])}
        by(a) == {i \in inside : NormalizeAuthor(seen[i].author) = a}
    IN /\ total_commits = Cardinality(inside)
       /\ \A i \in inside :
             LET a == NormalizeAuthor(seen[i].author)
             IN a \in DOMAIN stats /\ stats[a].commits = Cardinality(by(a))

\* C7: atomic_commit_ratio is in [0, 1], and is 1 for an author whose
\* recorded commit sizes are all <= 50 (taken here for the authors that have
\* a recorded size), also when file statistics raised for some commits.
C7_AtomicRatio ==
    pc = "done" =>
        \A a \in DOMAIN derived :
            LET r == derived[a].atomic_commit_ratio
                sizes == stats[a].commit_sizes
            IN /\ 0 <= r.num /\ r.num <= r.den
               /\ (sizes # <<>> /\ \A i \in DOMAIN sizes : sizes[i] <= AtomicThreshold)
                     => r.num = r.den

\* C9: when an evaluation of commit.stats raises for a commit that passed
\* the date filter, the loop goes on and the author's file-level metrics are
\* what they were, while the commit is counted in commits, total_commits,
\* active_days and weekday_commits.
C9_RaiseSkipsFileMetrics ==
    [][(Yields /\ Passed(LastSeen) /\ LastSeen.raises # 0) =>
          LET a == NormalizeAuthor(LastSeen.author)
              d == fromtimestamp(LastSeen.committed_date)
              before == Lookup(stats, a)
              after == stats'[a]
          IN /\ pc' = "iter"
             /\ after.files_changed = before.files_changed
             /\ after.additions = before.additions
             /\ after.deletions = before.deletions
             /\ after.tests_added = before.tests_added
             /\ after.docs_added = before.docs_added
             /\ after.commit_sizes = before.commit_sizes
             /\ after.file_types = before.file_types
             /\ after.fix_commits = before.fix_commits
             /\ after.refactor_commits = before.refactor_commits
             /\ after.feature_commits = before.feature_commits
             /\ after.pr_related_commits = before.pr_related_commits
             /\ after.commits = before.commits + 1
             /\ total_commits' = total_commits + 1
             /\ after.active_days = before.active_days \cup {d.day}
             /\ after.weekday_commits = Bump(before.weekday_commits, Weekday(d))]_vars

\* C10: the derived-metrics pass never divides by zero: a ratio whose
\* denominator is zero is reported as 0, and commit_percentage is evaluated
\* only when total_commits > 0.
C10_NoZeroDivision ==
    /\ pc # "raised"
    /\ DOMAIN stats # {} => total_commits > 0
    /\ pc = "done" =>
          \A a \in DOMAIN derived :
             /\ \A q \in Quotients(derived[a]) : q.den > 0
             /\ stats[a].additions + stats[a].deletions = 0 =>
                   derived[a].impact_ratio = Zero
             /\ stats[a].additions = 0 =>
                   derived[a].test_ratio = Zero /\ derived[a].doc_ratio = Zero
             /\ stats[a].commit_sizes = <<>> =>
                   /\ derived[a].mean_commit_size = Zero
                   /\ derived[a].atomic_commit_ratio = Zero

\* the metrics of an author with no additions, no churn and no recorded size
C10_Witness ==
    /\ pc = "done"
    /\ \E a \in DOMAIN derived :
          /\ stats[a].additions + stats[a].deletions = 0
          /\ stats[a].commit_sizes = <<>>
          /\ derived[a].commit_percentage.num > 0

=============================================================================
